---------------------------- MODULE Spec2Model ----------------------------
(***************************************************************************)
(* Model of chapter32_Spark_AI/HorovodEstimator.py: a Databricks notebook  *)
(* that builds an MNIST table, declares model_fn, constructs a             *)
(* HorovodEstimator, fits, transforms, refits with a larger step budget,   *)
(* transforms again and copies the checkpoint directory to DBFS.           *)
(*                                                                         *)
(* Two specifications:                                                     *)
(*   Spec    the notebook run cell by cell (pc is the next statement);     *)
(*   SpecFn  model_fn applied to every argument tuple of a bounded set.    *)
(* The calls into sparkdl / TensorFlow / dbutils are external; what they   *)
(* do is modelled from the contract the specification document states.     *)
(***************************************************************************)
EXTENDS Integers, Sequences, FiniteSets, TLC

VARIABLES
    pc,               \* the notebook statement that runs next
    files,            \* location -> contents of the checkpoint directory there
    df,               \* the table built by spark.createDataFrame (line 19)
    draws,            \* rand() of each row, in tenths (line 110)
    df_with_val,      \* df plus the isVal column (line 110)
    est,              \* the HorovodEstimator (line 97)
    training,         \* TRUE while a fit call has not returned
    global_step,      \* the global step of the model being trained
    evalPending,      \* a checkpoint was written and not yet evaluated
    transformer,      \* result of the first fit (line 112)
    new_transformer,  \* result of the second fit (line 121)
    res,              \* result of the first transform (line 115)
    new_res,          \* result of the second transform (line 122)
    out,              \* output of the last listing cell (lines 132, 136, 146)
    call,             \* arguments of the latest model_fn invocation
    result            \* what that invocation produced

vars == <<pc, files, df, draws, df_with_val, est, training, global_step,
          evalPending, transformer, new_transformer, res, new_res, out,
          call, result>>

-----------------------------------------------------------------------------
(* Bounds of the model.                                                    *)

\* rows of the table (the notebook loads all of MNIST)
NumRows == 2
\* global steps between two checkpoints of a running fit
StepChunk == 2500
\* number of Horovod workers hvd.size() may report
MaxWorkers == 2

\* rand() values a row may draw, in tenths: 0.0, 0.8 (the threshold), 0.9
RandDraws == {0, 8, 9}
\* hidden layer widths tried for the hyperparameter bag
HiddenUnits == {50, 100}

-----------------------------------------------------------------------------
(* Python values.                                                          *)

None == [op |-> "None"]

\* s[n:]
Drop(s, n) == SubSeq(s, n + 1, Len(s))

StartsWith(s, p) == Len(s) >= Len(p) /\ SubSeq(s, 1, Len(p)) = p

\* tf.estimator.ModeKeys
TRAIN == "train"
EVAL == "eval"
PREDICT == "infer"
ModeKeys == {TRAIN, EVAL, PREDICT}

-----------------------------------------------------------------------------
(* model_fn (lines 28-87).  TensorFlow 1.x builds a graph: every tensor is *)
(* a symbolic node, modelled as a record naming the op and its inputs.     *)

\* d[key]: a dict subscript raises KeyError when the key is missing
SubscriptDefault(d, key) ==
    IF key \in DOMAIN d
    THEN [raised |-> None, value |-> d[key]]
    ELSE [raised |-> None, value |-> 128]

Subscript(d, key) ==
    IF key \in DOMAIN d
    THEN [raised |-> None, value |-> d[key]]
    ELSE [raised |-> [op |-> "KeyError", key |-> key], value |-> 0]

\* tf.estimator.EstimatorSpec(...): arguments not given are None (no hooks: ())
EstimatorSpec(mode, predictions, loss, train_op, eval_metric_ops, export_outputs, training_hooks) ==
    [mode |-> mode, predictions |-> predictions, loss |-> loss,
     train_op |-> train_op, eval_metric_ops |-> eval_metric_ops,
     export_outputs |-> export_outputs, training_hooks |-> training_hooks]

\* the return of the PREDICT branch
PredictReturnWithLoss(mode, predictions, export_outputs) ==
    EstimatorSpec(mode, predictions,
                  [op |-> "softmax_cross_entropy"], None, None,
                  export_outputs, <<>>)

PredictReturn(mode, predictions, export_outputs) ==
    EstimatorSpec(mode, predictions, None, None, None, export_outputs, <<>>)

\* the return of the TRAIN branch
TrainReturn(mode, loss, train_op, export_outputs, logging_hooks) ==
    EstimatorSpec(mode, None, loss, train_op, None, export_outputs,
                  logging_hooks)

\* the return of the EVAL branch (the fall-through at the end of model_fn)
EvalReturnWithTrainOp(mode, loss, eval_metric_ops, export_outputs) ==
    EstimatorSpec(mode, None, loss, [op |-> "minimize", loss |-> loss],
                  eval_metric_ops, export_outputs, <<>>)

EvalReturn(mode, loss, eval_metric_ops, export_outputs) ==
    EstimatorSpec(mode, None, loss, None, eval_metric_ops, export_outputs,
                  <<>>)

\* an exception leaves model_fn: nothing is returned
Raise(err) ==
    [raised |-> err, spec |-> None, graph |-> {}, labels_read |-> FALSE]

Return(spec, graph, labels_read) ==
    [raised |-> None, spec |-> spec, graph |-> graph,
     labels_read |-> labels_read]

InferenceOps == {"mnist.inference", "argmax", "softmax"}
LossOps == {"cast", "one_hot", "softmax_cross_entropy"}
TrainOps == {"LoggingTensorHook", "MomentumOptimizer",
             "DistributedOptimizer", "minimize"}
EvalOps == {"accuracy"}

\* hvd_size is what hvd.size() returns on the worker that runs model_fn
model_fn(features, labels, mode, params, hvd_size) ==
    LET h1 == Subscript(params, "hidden1_units")
        h2 == Subscript(params, "hidden2_units")
    IN
    IF h1.raised # None THEN Raise(h1.raised)
    ELSE IF h2.raised # None THEN Raise(h2.raised)
    ELSE
    LET input_layer == features["image"]
        logits == [op |-> "mnist.inference", images |-> input_layer,
                   hidden1_units |-> h1.value, hidden2_units |-> h2.value]
        predictions ==
            [classes |-> [op |-> "argmax", name |-> "classes_tensor",
                          input |-> logits, axis |-> 1],
             probabilities |-> [op |-> "softmax", name |-> "softmax_tensor",
                                logits |-> logits]]
        export_outputs ==
            [serving_default |-> [op |-> "PredictOutput",
                                  outputs |-> predictions]]
    IN
    IF mode = PREDICT
    THEN Return(PredictReturn(mode, predictions, export_outputs),
                InferenceOps, FALSE)
    ELSE
    LET onehot_labels ==
            [op |-> "one_hot",
             indices |-> [op |-> "cast", x |-> labels, dtype |-> "int32"],
             depth |-> 10]
        loss == [op |-> "softmax_cross_entropy",
                 onehot_labels |-> onehot_labels, logits |-> logits]
    IN
    IF mode = TRAIN
    THEN
        LET logging_hooks ==
                <<[op |-> "LoggingTensorHook",
                   tensors |-> [predictions |-> "classes_tensor"],
                   every_n_iter |-> 5000]>>
            \* learning rate in thousandths, momentum in tenths
            optimizer ==
                [op |-> "DistributedOptimizer",
                 optimizer |-> [op |-> "MomentumOptimizer",
                                learning_rate |-> 1 * hvd_size,
                                momentum |-> 9]]
            train_op == [op |-> "minimize", optimizer |-> optimizer,
                         loss |-> loss, global_step |-> "global_step"]
        IN Return(TrainReturn(mode, loss, train_op, export_outputs,
                              logging_hooks),
                  InferenceOps \cup LossOps \cup TrainOps, TRUE)
    ELSE
        LET eval_metric_ops ==
                [accuracy |-> [op |-> "accuracy", labels |-> labels,
                               predictions |-> predictions["classes"]]]
        IN Return(EvalReturn(mode, loss, eval_metric_ops, export_outputs),
                  InferenceOps \cup LossOps \cup EvalOps, TRUE)

\* the tensors HorovodEstimator feeds to model_fn (comment at lines 41-47)
ImageTensor == [op |-> "placeholder", column |-> "image", dtype |-> "float32"]
LabelTensor == [op |-> "placeholder", column |-> "label_col", dtype |-> "int64"]

Call(labels, mode, params, hvd_size) ==
    [features |-> [image |-> ImageTensor], labels |-> labels, mode |-> mode,
     params |-> params, hvd_size |-> hvd_size]

Invoke(c) == model_fn(c.features, c.labels, c.mode, c.params, c.hvd_size)

-----------------------------------------------------------------------------
(* Paths and the two file systems.  A path is the sequence of its          *)
(* characters, so that model_dir[5:] is computed as Python computes it.    *)

\* "/tmp/horovod_estimator" (line 94)
model_dir ==
    <<"/", "t", "m", "p", "/", "h", "o", "r", "o", "v", "o", "d", "_", "e", "s", "t", "i", "m", "a", "t", "o", "r">>

\* "file:/tmp/horovod_estimator/" (line 127)
cp_source ==
    <<"f", "i", "l", "e", ":", "/", "t", "m", "p", "/", "h", "o", "r", "o", "v", "o", "d", "_", "e", "s", "t", "i", "m", "a", "t", "o", "r", "/">>

\* "dbfs:/horovod_estimator/" (lines 127, 136)
cp_target ==
    <<"d", "b", "f", "s", ":", "/", "h", "o", "r", "o", "v", "o", "d", "_", "e", "s", "t", "i", "m", "a", "t", "o", "r", "/">>

FileScheme == <<"f", "i", "l", "e", ":">>
DbfsScheme == <<"d", "b", "f", "s", ":">>

\* a directory path names the same directory with or without the last "/"
StripSlash(path) ==
    IF Len(path) > 1 /\ path[Len(path)] = "/"
    THEN SubSeq(path, 1, Len(path) - 1)
    ELSE path

\* a path of the driver's local file system (TensorFlow's modelDir, %sh)
LocalLoc(path) == [fs |-> "file", path |-> StripSlash(path)]

\* dbutils.fs resolves a path without a scheme in DBFS, from its root
DbutilsLoc(path) ==
    IF StartsWith(path, FileScheme)
    THEN [fs |-> "file", path |-> StripSlash(Drop(path, Len(FileScheme)))]
    ELSE IF StartsWith(path, DbfsScheme)
    THEN [fs |-> "dbfs", path |-> StripSlash(Drop(path, Len(DbfsScheme)))]
    ELSE IF Len(path) > 0 /\ path[1] = "/"
    THEN [fs |-> "dbfs", path |-> StripSlash(path)]
    ELSE [fs |-> "dbfs", path |-> StripSlash(<<"/">> \o path)]

\* the directories the notebook names
Locations == {LocalLoc(model_dir), DbutilsLoc(cp_target)}

NoDir == [op |-> "NoDir"]

\* a checkpoint directory is known by the global step of its latest checkpoint
Checkpoint(step) == [op |-> "checkpoint", global_step |-> step]

\* rm -r: the directory is gone (removing what is not there changes nothing)
Remove(fs, loc) ==
    IF loc \in DOMAIN fs THEN [fs EXCEPT ![loc] = NoDir] ELSE fs

\* cp -r: the target holds what the source holds
Copy(fs, from, to) ==
    IF from \in DOMAIN fs /\ to \in DOMAIN fs /\ fs[from] # NoDir
    THEN [fs EXCEPT ![to] = fs[from]]
    ELSE fs

\* the global step a fit starts from: the latest checkpoint of modelDir, or 0
RestoreStep(fs, loc) ==
    IF loc \in DOMAIN fs /\ fs[loc] # NoDir THEN fs[loc].global_step ELSE 0

-----------------------------------------------------------------------------
(* The notebook, statement by statement.                                   *)

\* the statements in the order of the cells (display and help cells change
\* nothing and are left out)
Stmts == <<"load", "def_model_fn", "rm_model_dir", "create_estimator",
           "with_val", "fit", "transform", "set_max_steps", "refit",
           "retransform", "cp", "ls_local", "ls_dbfs", "rm_local",
           "ls_after", "done">>

Pos(s) == CHOOSE i \in 1..Len(Stmts) : Stmts[i] = s

\* a mutant: the copy cell is run right after the first transform
NextStmtSkipRefit(s) ==
    IF s = "transform" THEN "cp"
    ELSE IF s = "done" THEN "done" ELSE Stmts[Pos(s) + 1]

\* the statement that runs when s has returned
NextStmt(s) == IF s = "done" THEN "done" ELSE Stmts[Pos(s) + 1]

\* maxSteps=5000 (line 102) and setMaxSteps(10000) (line 120)
MaxSteps1 == 5000
MaxSteps2 == 10000

\* MNIST samples: a grid of pixels and a digit
Samples == {[x |-> <<<<0, 255>>, <<255, 0>>>>, y |-> 7],
            [x |-> <<<<255, 255>>, <<0, 0>>>>, y |-> 0]}

\* x.reshape((n, -1)): the rows of a grid one after the other
RECURSIVE Flatten(_)
Flatten(grid) ==
    IF grid = <<>> THEN <<>> ELSE Head(grid) \o Flatten(Tail(grid))

\* global steps an earlier run of the notebook may have left checkpointed
StaleSteps == {k * StepChunk : k \in 0..(MaxSteps2 \div StepChunk)}

Init ==
    /\ pc = "load"
    /\ \E local \in {NoDir} \cup {Checkpoint(g) : g \in StaleSteps},
          remote \in {NoDir, Checkpoint(MaxSteps2)} :
          files = [l \in Locations |->
                      IF l = LocalLoc(model_dir) THEN local ELSE remote]
    /\ df = <<>>
    /\ draws = <<>>
    /\ df_with_val = <<>>
    /\ est = None
    /\ training = FALSE
    /\ global_step = 0
    /\ evalPending = FALSE
    /\ transformer = None
    /\ new_transformer = None
    /\ res = None
    /\ new_res = None
    /\ out = None
    /\ call = None
    /\ result = None

\* lines 14-19: x_train is flattened and wrapped into the two-column table
LoadData ==
    /\ pc = "load"
    /\ \E xy \in [1..NumRows -> Samples] :
          df' = [i \in 1..NumRows |->
                    [image |-> Flatten(xy[i].x), label_col |-> xy[i].y]]
    /\ pc' = NextStmt(pc)
    /\ UNCHANGED <<files, draws, df_with_val, est, training, global_step,
                   evalPending, transformer, new_transformer, res, new_res,
                   out, call, result>>

\* line 28: def model_fn binds the name; the body does not run
DefModelFn ==
    /\ pc = "def_model_fn"
    /\ pc' = NextStmt(pc)
    /\ UNCHANGED <<files, df, draws, df_with_val, est, training, global_step,
                   evalPending, transformer, new_transformer, res, new_res,
                   out, call, result>>

\* lines 94-95: dbutils.fs.rm(model_dir[5:], recurse=True)
RmModelDir ==
    /\ pc = "rm_model_dir"
    /\ files' = Remove(files, DbutilsLoc(Drop(model_dir, 5)))
    /\ pc' = NextStmt(pc)
    /\ UNCHANGED <<df, draws, df_with_val, est, training, global_step,
                   evalPending, transformer, new_transformer, res, new_res,
                   out, call, result>>

\* lines 97-105
CreateEstimator ==
    /\ pc = "create_estimator"
    /\ est' = [modelFn |-> "model_fn",
               featureMapping |-> [image |-> "image"],
               modelDir |-> model_dir,
               labelCol |-> "label_col",
               batchSize |-> 64,
               maxSteps |-> MaxSteps1,
               isValidationCol |-> "isVal",
               modelFnParams |-> [hidden1_units |-> 100, hidden2_units |-> 50],
               saveCheckpointsSecs |-> 30]
    /\ pc' = NextStmt(pc)
    /\ UNCHANGED <<files, df, draws, df_with_val, training, global_step,
                   evalPending, transformer, new_transformer, res, new_res,
                   out, call, result>>

\* when(rand() > 0.8, True).otherwise(False), the draw in tenths
IsValAtLeast(draw) == IF draw >= 8 THEN TRUE ELSE FALSE

IsVal(draw) == IF draw > 8 THEN TRUE ELSE FALSE

\* line 110: df.withColumn("isVal", ...) is a new table; df stays as it is
WithVal ==
    /\ pc = "with_val"
    /\ \E d \in [1..Len(df) -> RandDraws] :
          /\ draws' = d
          /\ df_with_val' = [i \in 1..Len(df) |->
                [image |-> df[i].image, label_col |-> df[i].label_col,
                 isVal |-> IsVal(d[i])]]
    /\ pc' = NextStmt(pc)
    /\ UNCHANGED <<files, df, est, training, global_step, evalPending,
                   transformer, new_transformer, res, new_res, out, call,
                   result>>

-----------------------------------------------------------------------------
(* est.fit: the call is the notebook's, what happens inside is sparkdl's   *)
(* and TensorFlow's.  A fit restores the global step from the latest       *)
(* checkpoint of modelDir, trains until the step budget is reached,        *)
(* writing checkpoints, evaluates them, exports the model and returns a    *)
(* transformer.                                                            *)

Min(a, b) == IF a <= b THEN a ELSE b

FitBegin(stmt) ==
    /\ pc = stmt
    /\ ~training
    /\ training' = TRUE
    /\ global_step' = RestoreStep(files, LocalLoc(est.modelDir))
    /\ evalPending' = FALSE
    /\ \E n \in 1..MaxWorkers :
          call' = Call(LabelTensor, TRAIN, est.modelFnParams, n)
    /\ result' = Invoke(call')
    /\ UNCHANGED <<pc, files, df, draws, df_with_val, est, transformer,
                   new_transformer, res, new_res, out>>

\* training advances the global step and saves a checkpoint
FitTrain ==
    /\ training
    /\ global_step < est.maxSteps
    /\ global_step' = Min(global_step + StepChunk, est.maxSteps)
    /\ files' = [files EXCEPT ![LocalLoc(est.modelDir)] =
                                  Checkpoint(global_step')]
    /\ evalPending' = TRUE
    /\ UNCHANGED <<pc, df, draws, df_with_val, est, training, transformer,
                   new_transformer, res, new_res, out, call, result>>

\* the new checkpoint is evaluated on the validation rows
FitEval ==
    /\ training
    /\ evalPending
    /\ evalPending' = FALSE
    /\ call' = Call(LabelTensor, EVAL, est.modelFnParams, call.hvd_size)
    /\ result' = Invoke(call')
    /\ UNCHANGED <<pc, files, df, draws, df_with_val, est, training,
                   global_step, transformer, new_transformer, res, new_res,
                   out>>

\* the model fit returns: the exported graph at the trained global step
TFTransformer(n, step) ==
    [op |-> "TFTransformer", fit |-> n, global_step |-> step]

\* the budget is reached: the model is exported (PREDICT) and fit returns
FitReturn(stmt) ==
    /\ pc = stmt
    /\ training
    /\ global_step >= est.maxSteps
    /\ training' = FALSE
    /\ evalPending' = FALSE
    /\ call' = Call(None, PREDICT, est.modelFnParams, call.hvd_size)
    /\ result' = Invoke(call')
    /\ pc' = NextStmt(pc)
    /\ UNCHANGED <<files, df, draws, df_with_val, est, global_step, res,
                   new_res, out>>

\* line 112: transformer = est.fit(df_with_val)
Fit1Begin == FitBegin("fit")

Fit1Return ==
    /\ FitReturn("fit")
    /\ transformer' = TFTransformer(1, global_step)
    /\ UNCHANGED new_transformer

\* line 121: new_transformer = est.fit(df_with_val)
Fit2Begin == FitBegin("refit")

Fit2Return ==
    /\ FitReturn("refit")
    /\ new_transformer' = TFTransformer(2, global_step)
    /\ UNCHANGED transformer

\* transform: the table's rows with the two prediction columns added
TFTransform(t, table) ==
    [by |-> t,
     rows |-> [i \in DOMAIN table |->
                  table[i] @@
                  [classes |-> [op |-> "classes_tensor",
                                global_step |-> t.global_step],
                   probabilities |-> [op |-> "softmax_tensor",
                                      global_step |-> t.global_step]]]]

\* a mutant: the result is assigned to df itself
Transform1InPlace ==
    /\ pc = "transform"
    /\ res' = TFTransform(transformer, df)
    /\ df' = res'.rows
    /\ pc' = NextStmt(pc)
    /\ UNCHANGED <<files, draws, df_with_val, est, training, global_step,
                   evalPending, transformer, new_transformer, new_res, out,
                   call, result>>

\* line 115: res = transformer.transform(df)
Transform1 ==
    /\ pc = "transform"
    /\ res' = TFTransform(transformer, df)
    /\ pc' = NextStmt(pc)
    /\ UNCHANGED <<files, df, draws, df_with_val, est, training, global_step,
                   evalPending, transformer, new_transformer, new_res, out,
                   call, result>>

\* a mutant: the checkpoint directory is cleared before the refit
SetMaxStepsFreshDir ==
    /\ pc = "set_max_steps"
    /\ est' = [est EXCEPT !.maxSteps = MaxSteps2]
    /\ files' = Remove(files, LocalLoc(est.modelDir))
    /\ pc' = NextStmt(pc)
    /\ UNCHANGED <<df, draws, df_with_val, training, global_step,
                   evalPending, transformer, new_transformer, res, new_res,
                   out, call, result>>

\* line 120: est.setMaxSteps(10000)
SetMaxSteps ==
    /\ pc = "set_max_steps"
    /\ est' = [est EXCEPT !.maxSteps = MaxSteps2]
    /\ pc' = NextStmt(pc)
    /\ UNCHANGED <<files, df, draws, df_with_val, training, global_step,
                   evalPending, transformer, new_transformer, res, new_res,
                   out, call, result>>

\* line 122: new_res = transformer.transform(df)
Transform2 ==
    /\ pc = "retransform"
    /\ new_res' = TFTransform(transformer, df)
    /\ pc' = NextStmt(pc)
    /\ UNCHANGED <<files, df, draws, df_with_val, est, training, global_step,
                   evalPending, transformer, new_transformer, res, out, call,
                   result>>

\* a mutant: source and target of the copy exchanged
CopyCheckpointsBack ==
    /\ pc = "cp"
    /\ files' = Copy(files, DbutilsLoc(cp_target), DbutilsLoc(cp_source))
    /\ pc' = NextStmt(pc)
    /\ UNCHANGED <<df, draws, df_with_val, est, training, global_step,
                   evalPending, transformer, new_transformer, res, new_res,
                   out, call, result>>

\* line 127: dbutils.fs.cp("file:/tmp/horovod_estimator/",
\*                         "dbfs:/horovod_estimator/", recurse=True)
CopyCheckpoints ==
    /\ pc = "cp"
    /\ files' = Copy(files, DbutilsLoc(cp_source), DbutilsLoc(cp_target))
    /\ pc' = NextStmt(pc)
    /\ UNCHANGED <<df, draws, df_with_val, est, training, global_step,
                   evalPending, transformer, new_transformer, res, new_res,
                   out, call, result>>

\* what ls prints of a directory
Listing(fs, loc) == IF loc \in DOMAIN fs THEN fs[loc] ELSE NoDir

\* line 132: %sh ls -ltr /tmp/horovod_estimator
LsLocal ==
    /\ pc = "ls_local"
    /\ out' = Listing(files, LocalLoc(model_dir))
    /\ pc' = NextStmt(pc)
    /\ UNCHANGED <<files, df, draws, df_with_val, est, training, global_step,
                   evalPending, transformer, new_transformer, res, new_res,
                   call, result>>

\* line 136: print(dbutils.fs.ls("dbfs:/horovod_estimator/"))
LsDbfs ==
    /\ pc = "ls_dbfs"
    /\ out' = Listing(files, DbutilsLoc(cp_target))
    /\ pc' = NextStmt(pc)
    /\ UNCHANGED <<files, df, draws, df_with_val, est, training, global_step,
                   evalPending, transformer, new_transformer, res, new_res,
                   call, result>>

\* line 141: %sh rm -rf /tmp/horovod_estimator
RmLocal ==
    /\ pc = "rm_local"
    /\ files' = Remove(files, LocalLoc(model_dir))
    /\ pc' = NextStmt(pc)
    /\ UNCHANGED <<df, draws, df_with_val, est, training, global_step,
                   evalPending, transformer, new_transformer, res, new_res,
                   out, call, result>>

\* line 146: %sh ls -ltr /tmp/horovod_estimator
LsAfter ==
    /\ pc = "ls_after"
    /\ out' = Listing(files, LocalLoc(model_dir))
    /\ pc' = NextStmt(pc)
    /\ UNCHANGED <<files, df, draws, df_with_val, est, training, global_step,
                   evalPending, transformer, new_transformer, res, new_res,
                   call, result>>

Next ==
    \/ LoadData
    \/ DefModelFn
    \/ RmModelDir
    \/ CreateEstimator
    \/ WithVal
    \/ Fit1Begin
    \/ FitTrain
    \/ FitEval
    \/ Fit1Return
    \/ Transform1
    \/ SetMaxSteps
    \/ Fit2Begin
    \/ Fit2Return
    \/ Transform2
    \/ CopyCheckpoints
    \/ LsLocal
    \/ LsDbfs
    \/ RmLocal
    \/ LsAfter

Spec == Init /\ [][Next]_vars

-----------------------------------------------------------------------------
(* model_fn on its own: every argument tuple of a bounded set.             *)

\* hyperparameter bags: any subset of the two keys, any of the widths
ParamKeys == {"hidden1_units", "hidden2_units"}
ParamBags == UNION {[keys -> HiddenUnits] : keys \in SUBSET ParamKeys}

\* the framework passes labels in TRAIN and EVAL; in PREDICT there may be none
FnCalls ==
    {Call(labels, mode, params, n) :
        labels \in {None, LabelTensor}, mode \in ModeKeys,
        params \in ParamBags, n \in 1..MaxWorkers}

InitFn ==
    /\ pc = "model_fn"
    /\ files = [l \in Locations |-> NoDir]
    /\ df = <<>>
    /\ draws = <<>>
    /\ df_with_val = <<>>
    /\ est = None
    /\ training = FALSE
    /\ global_step = 0
    /\ evalPending = FALSE
    /\ transformer = None
    /\ new_transformer = None
    /\ res = None
    /\ new_res = None
    /\ out = None
    /\ call \in {c \in FnCalls : c.labels = None => c.mode = PREDICT}
    /\ result = None

ApplyModelFn ==
    /\ pc = "model_fn"
    /\ result = None
    /\ result' = Invoke(call)
    /\ UNCHANGED <<pc, files, df, draws, df_with_val, est, training,
                   global_step, evalPending, transformer, new_transformer,
                   res, new_res, out, call>>

NextFn == ApplyModelFn

SpecFn == InitFn /\ [][NextFn]_vars

-----------------------------------------------------------------------------
(* The claims.                                                             *)

LocalDir == LocalLoc(model_dir)
DbfsDir == DbutilsLoc(cp_target)

\* the stage of the pipeline a statement belongs to: 1 build table,
\* 2 declare model_fn, 3 construct the estimator, 4 first fit, 5 transform,
\* 6 raise the step budget, 7 second fit, 8 transform again, 9 copy,
\* 10 the listing and cleanup cells after the copy
StageOf(s) ==
    CASE s = "load" -> 1
      [] s = "def_model_fn" -> 2
      [] s \in {"rm_model_dir", "create_estimator"} -> 3
      [] s \in {"with_val", "fit"} -> 4
      [] s = "transform" -> 5
      [] s = "set_max_steps" -> 6
      [] s = "refit" -> 7
      [] s = "retransform" -> 8
      [] s = "cp" -> 9
      [] OTHER -> 10

LinearOrderStep ==
    /\ StageOf(pc') \in {StageOf(pc), StageOf(pc) + 1}
    /\ (pc' # pc => ~training')
    /\ (training' => pc' \in {"fit", "refit"})
    /\ ((StageOf(pc') < 4 \/ pc' = "with_val" \/ (pc' = "fit" /\ ~training'))
           => (call' = None /\ result' = None))

\* C1: the stages run in one fixed linear order (build table, declare
\* model_fn, construct the estimator, first fit, transform, raise the step
\* budget, second fit, transform again, copy): every step stays in its stage
\* or enters the next one, the notebook moves to another statement only when
\* no fit is still running, and until the first fit has started model_fn has
\* not been invoked.
C1_LinearOrder == [][LinearOrderStep]_vars

C1_Witness ==
    /\ pc = "done"
    /\ transformer # None
    /\ new_transformer # None
    /\ res # None
    /\ new_res # None
    /\ result # None

\* C2: a PREDICT call of model_fn that returns a specification returns the
\* predictions "classes" and "probabilities" and the export mapping and
\* nothing else: no loss, no training operation, no training hooks, no
\* evaluation metrics; the one-hot encoding, the loss and the optimizer are
\* not built and the labels are not read.
C2_PredictOnlyPredictions ==
    (call # None /\ result # None /\ result.raised = None
        /\ call.mode = PREDICT)
    => /\ DOMAIN result.spec.predictions = {"classes", "probabilities"}
       /\ result.spec.export_outputs # None
       /\ result.spec.export_outputs.serving_default.outputs
             = result.spec.predictions
       /\ result.spec.loss = None
       /\ result.spec.train_op = None
       /\ result.spec.training_hooks = <<>>
       /\ result.spec.eval_metric_ops = None
       /\ result.graph \cap {"cast", "one_hot", "softmax_cross_entropy",
                             "MomentumOptimizer", "DistributedOptimizer",
                             "minimize", "accuracy"} = {}
       /\ ~result.labels_read

C2_Witness ==
    /\ call # None
    /\ result # None
    /\ call.mode = PREDICT
    /\ call.labels = LabelTensor
    /\ result.raised = None
    /\ result.spec.predictions # None

\* the three payloads of the model specification
PredictShape(s) == s.predictions # None /\ s.export_outputs # None
TrainShape(s) ==
    s.loss # None /\ s.train_op # None /\ s.training_hooks # <<>>
EvalShape(s) ==
    /\ s.loss # None
    /\ s.eval_metric_ops # None
    /\ DOMAIN s.eval_metric_ops = {"accuracy"}

\* C3: the specification model_fn returns has the payload of its mode and of
\* no other mode: predictions and export map for PREDICT, loss, training
\* operation and logging hooks for TRAIN, loss and the accuracy metric for
\* EVAL; a training operation is present only for TRAIN and evaluation
\* metrics only for EVAL.
C3_ShapeByMode ==
    (call # None /\ result # None /\ result.raised = None)
    => LET s == result.spec IN
       /\ s.mode = call.mode
       /\ PredictShape(s) <=> call.mode = PREDICT
       /\ TrainShape(s) <=> call.mode = TRAIN
       /\ EvalShape(s) <=> call.mode = EVAL
       /\ s.train_op # None <=> call.mode = TRAIN
       /\ s.eval_metric_ops # None <=> call.mode = EVAL

C3_Witness ==
    /\ call # None
    /\ result # None
    /\ result.raised = None
    /\ call.mode = EVAL
    /\ EvalShape(result.spec)
    /\ result.spec.export_outputs # None

RefitResumesStep ==
    /\ (pc \in {"transform", "set_max_steps"} \/ (pc = "refit" /\ ~training))
       => /\ files'[LocalDir] = files[LocalDir]
          /\ files[LocalDir] # NoDir
          /\ est'.modelDir = est.modelDir
          /\ est.modelDir = model_dir
    /\ (pc = "refit" /\ ~training /\ training')
       => /\ est.maxSteps = MaxSteps2
          /\ global_step' = transformer.global_step
          /\ global_step' = files[LocalDir].global_step
          /\ global_step' >= MaxSteps1
    /\ (pc = "refit" /\ pc' # pc)
       => /\ new_transformer'.global_step >= transformer.global_step
          /\ new_transformer'.global_step <= MaxSteps2

\* C4: from the return of the first fit to the start of the second the
\* checkpoint directory is not touched and the estimator keeps its modelDir;
\* the second fit runs with the budget 10000, starts at the global step the
\* first fit ended with (at least 5000, not 0), and ends at a global step
\* that is not below its start and not above 10000.
C4_RefitResumes == [][RefitResumesStep]_vars

C4_Witness ==
    /\ pc = "refit"
    /\ training
    /\ est.maxSteps = MaxSteps2
    /\ transformer.global_step = MaxSteps1
    /\ global_step > MaxSteps1
    /\ global_step < MaxSteps2

TransformFrameStep ==
    pc \in {"transform", "retransform"}
    => /\ files' = files
       /\ global_step' = global_step
       /\ est' = est
       /\ transformer' = transformer
       /\ new_transformer' = new_transformer
       /\ df' = df
       /\ df_with_val' = df_with_val
       /\ LET o == IF pc = "transform" THEN res' ELSE new_res' IN
          /\ DOMAIN o.rows = DOMAIN df
          /\ \A i \in DOMAIN df :
                /\ DOMAIN o.rows[i] = {"image", "label_col", "classes",
                                       "probabilities"}
                /\ o.rows[i].image = df[i].image
                /\ o.rows[i].label_col = df[i].label_col

\* C5: a transform changes neither the checkpoint directories, nor the
\* trained global step, nor the estimator, nor the transformers, nor the
\* tables it is given; its result is a new table: the rows of the input with
\* the columns "classes" and "probabilities" added.
C5_TransformFrame == [][TransformFrameStep]_vars

C5_Witness ==
    /\ pc = "cp"
    /\ res # None
    /\ new_res # None
    /\ Len(df) > 0
    /\ files[LocalDir] = Checkpoint(new_transformer.global_step)

\* C6: the table of the second transform is produced by the transformer the
\* second fit returned.
C6_SecondTransformUsesRefit ==
    new_res # None => new_res.by = new_transformer

\* C7: from the removal at line 95 until the first fit starts, the directory
\* the estimator trains into (modelDir) does not exist.
C7_ModelDirClearedBeforeFit ==
    (pc \in {"create_estimator", "with_val"} \/ (pc = "fit" /\ ~training))
    => files[LocalLoc(model_dir)] = NoDir

CopyAfterFitsStep ==
    /\ StageOf(pc) < 9 => files'[DbfsDir] \in {files[DbfsDir], NoDir}
    /\ (pc = "cp" /\ pc' # pc)
       => /\ ~training
          /\ transformer # None
          /\ new_transformer # None
          /\ files[LocalDir] # NoDir
          /\ files[LocalDir].global_step = new_transformer.global_step
          /\ files'[LocalDir] = files[LocalDir]
          /\ files'[DbfsDir] = files[LocalDir]
    /\ (pc = "rm_local" /\ pc' # pc)
       => /\ files'[LocalDir] = NoDir
          /\ files'[DbfsDir] # NoDir
          /\ files'[DbfsDir].global_step = new_transformer.global_step

\* C8: until the copy cell runs nothing is written to the DBFS directory;
\* the copy runs after both fits have returned, while the local directory
\* exists and holds the checkpoint of the model the second fit returned, and
\* leaves the same contents in the DBFS directory; the closing rm removes
\* the local directory and leaves the DBFS copy.
C8_CopyAfterFits == [][CopyAfterFitsStep]_vars

C8_Witness ==
    /\ pc = "done"
    /\ files[LocalDir] = NoDir
    /\ files[DbfsDir] # NoDir
    /\ files[DbfsDir].global_step = new_transformer.global_step

\* C9: when hidden1_units or hidden2_units is missing from params, model_fn
\* raises the KeyError of a missing key in every mode, returns no
\* specification and builds nothing.
C9_MissingKeyPropagates ==
    (call # None /\ result # None
        /\ ~({"hidden1_units", "hidden2_units"} \subseteq DOMAIN call.params))
    => /\ result.raised # None
       /\ result.raised.op = "KeyError"
       /\ result.raised.key \in {"hidden1_units", "hidden2_units"}
       /\ result.raised.key \notin DOMAIN call.params
       /\ result.spec = None
       /\ result.graph = {}

C9_Witness ==
    /\ call # None
    /\ result # None
    /\ call.mode = PREDICT
    /\ DOMAIN call.params = {"hidden1_units"}
    /\ result.raised # None
    /\ result.raised.key = "hidden2_units"
    /\ result.spec = None

\* C10: isVal is a boolean in every row of df_with_val, TRUE exactly when
\* the row's own draw is above 0.8 (a draw of exactly 0.8 gives FALSE);
\* df_with_val has the three columns, df keeps its two columns, and the
\* table transform returns has no isVal column.
C10_IsValPerRow ==
    /\ \A i \in DOMAIN df : DOMAIN df[i] = {"image", "label_col"}
    /\ df_with_val # <<>> =>
          /\ DOMAIN df_with_val = DOMAIN df
          /\ \A i \in DOMAIN df_with_val :
                /\ DOMAIN df_with_val[i] = {"image", "label_col", "isVal"}
                /\ df_with_val[i].isVal \in BOOLEAN
                /\ df_with_val[i].isVal <=> draws[i] > 8
                /\ df_with_val[i].image = df[i].image
                /\ df_with_val[i].label_col = df[i].label_col
    /\ res # None =>
          \A i \in DOMAIN res.rows : "isVal" \notin DOMAIN res.rows[i]

C10_Witness ==
    /\ res # None
    /\ \E i, j \in DOMAIN df_with_val :
          /\ draws[i] = 8
          /\ df_with_val[i].isVal = FALSE
          /\ draws[j] = 9
          /\ df_with_val[j].isVal = TRUE

=============================================================================
